---- MODULE Spec2Model ----
(***************************************************************************)
(* Turn/phase progression controller of the campus quiz                    *)
(* (components/GameInterface.tsx) together with the service wrapper it     *)
(* calls (services/gemini.ts, stored in src/types.ts lines 67-224).        *)
(*                                                                         *)
(* A JavaScript string is modelled as a sequence of lexemes: the lexemes   *)
(* BT (three backticks), "json", "\n" and " " are the ones the wrapper's   *)
(* regular expression and trim() look at, every other lexeme is an opaque  *)
(* piece of text.  A JavaScript object is a record with a "type" field and *)
(* the keys it really has, so the empty object and null are values too.    *)
(***************************************************************************)
EXTENDS Integers, Sequences, FiniteSets, TLC

\* ------------------------------------------------------------------ bounds
\* wrong selections the user makes in one session
MaxWrong == 2
\* delivered turn payloads of one session that are not the planned stop
MaxOdd == 1

\* ------------------------------------------------------- program constants
TOTAL_TURNS == 10

\* ------------------------------------------------------------ JS values
JSNull == [type |-> "null"]

EmptyObject == [type |-> "object"]

\* what a template literal or a property read yields for a missing key
JSUndefined == <<"undefined">>

Truthy(v) == v.type # "null"

Get(obj, key) == IF key \in DOMAIN obj THEN obj[key] ELSE JSUndefined

\* { ...obj, [key]: value }
Spread(obj, key, value) ==
  [k \in (DOMAIN obj) \cup {key} |-> IF k = key THEN value ELSE obj[k]]

\* ------------------------------------------------------------ strings
\* the lexeme of three backticks
BT == "FENCE"

IsSpace(ch) == ch \in {" ", "\n"}

RECURSIVE TrimStart(_)
TrimStart(s) ==
  IF s = <<>> THEN <<>>
  ELSE IF IsSpace(Head(s)) THEN TrimStart(Tail(s))
  ELSE s

RECURSIVE TrimEnd(_)
TrimEnd(s) ==
  IF s = <<>> THEN <<>>
  ELSE IF IsSpace(s[Len(s)]) THEN TrimEnd(SubSeq(s, 1, Len(s) - 1))
  ELSE s

\* String.prototype.trim
Trim(s) == TrimEnd(TrimStart(s))

Drop(s, n) == SubSeq(s, n + 1, Len(s))

\* text.replace(/BT json\n?|\n?BT/g, ""), BT the three backticks: at every
\* position the first alternative is tried before the second one
RECURSIVE StripFences(_)
StripFences(s) ==
  IF s = <<>> THEN <<>>
  ELSE IF Len(s) >= 2 /\ s[1] = BT /\ s[2] = "json"
    THEN IF Len(s) >= 3 /\ s[3] = "\n" THEN StripFences(Drop(s, 3))
         ELSE StripFences(Drop(s, 2))
  ELSE IF Len(s) >= 2 /\ s[1] = "\n" /\ s[2] = BT THEN StripFences(Drop(s, 2))
  ELSE IF s[1] = BT THEN StripFences(Drop(s, 1))
  ELSE <<s[1]>> \o StripFences(Tail(s))

\* ------------------------------------------------------------ challenges
\* the ten stops of the tour, SYSTEM_INSTRUCTION "TURN MANAGEMENT"
Landmarks ==
  << "Ellis Library", "Mizzou Rec Complex", "The Columns", "Shakespeares Pizza",
     "The Mizzou Store", "University Hospital", "Geology Building",
     "Tiger Grotto", "Science Lab", "Memorial Stadium" >>

\* a GameTurnData as the service is instructed to produce it for stop n
TurnChallenge(n) ==
  [ type |-> "object",
    locationName |-> <<Landmarks[n]>>,
    locationType |-> <<"library">>,
    englishQuestion |-> <<"What is the main rule here?">>,
    spanishConcept |-> <<"We need to be quiet">>,
    question |-> <<"_____ (exigir) silencio">>,
    options |-> << <<"Se exige">>, <<"Se busca">> >>,
    correctAnswer |-> <<"Se exige">>,
    explanation |-> <<"Singular object -> Se exige.">>,
    isGameOver |-> FALSE ]

\* the same payload with the end-of-game flag raised
OverChallenge == [TurnChallenge(1) EXCEPT !.isGameOver = TRUE]

\* a payload whose correctAnswer is none of its options
NoKeyChallenge == [TurnChallenge(1) EXCEPT !.correctAnswer = <<"Se exigen">>]

\* a literal for the catch branch whose correctAnswer is not its option
PlaceholderUnanswerable ==
  [ type |-> "object",
    locationName |-> <<"Connection Error">>,
    locationType |-> <<"park">>,
    englishQuestion |-> <<"Something went wrong. Can you reload?">>,
    spanishConcept |-> <<"Error">>,
    question |-> <<"Try refreshing the page.">>,
    options |-> << <<"Reload">> >>,
    correctAnswer |-> <<"Retry">>,
    explanation |-> <<"JSON Parse Error">>,
    isGameOver |-> FALSE ]

\* the literal of sendMessage's catch branch
Placeholder ==
  [ type |-> "object",
    locationName |-> <<"Connection Error">>,
    locationType |-> <<"park">>,
    englishQuestion |-> <<"Something went wrong. Can you reload?">>,
    spanishConcept |-> <<"Error">>,
    question |-> <<"Try refreshing the page.">>,
    options |-> << <<"Reload">> >>,
    correctAnswer |-> <<"Reload">>,
    explanation |-> <<"JSON Parse Error">>,
    isGameOver |-> FALSE ]

\* ------------------------------------------------------------ JSON
\* the lexeme that is the JSON text of TurnChallenge(n)
\* (a request past the last stop is answered with the end-of-game payload)
TurnDoc(n) ==
  IF n \in 1..TOTAL_TURNS
    THEN << "{turn1}", "{turn2}", "{turn3}", "{turn4}", "{turn5}",
            "{turn6}", "{turn7}", "{turn8}", "{turn9}", "{turn10}" >>[n]
    ELSE "{over}"

\* lexemes that are complete JSON documents
JSONDocs ==
  {TurnDoc(n) : n \in 1..TOTAL_TURNS} \cup {"{over}", "{nokey}", "{}", "null"}

JSONValue(doc) ==
  IF doc = "{}" THEN EmptyObject
  ELSE IF doc = "null" THEN JSNull
  ELSE IF doc = "{over}" THEN OverChallenge
  ELSE IF doc = "{nokey}" THEN NoKeyChallenge
  ELSE TurnChallenge(CHOOSE n \in 1..TOTAL_TURNS : TurnDoc(n) = doc)

\* JSON.parse: white space around the one document is allowed, anything
\* else (no document, two documents, a stray word) is a SyntaxError
JSONParse(text) ==
  LET t == Trim(text)
  IN IF Len(t) = 1 /\ t[1] \in JSONDocs
       THEN [threw |-> FALSE, value |-> JSONValue(t[1])]
       ELSE [threw |-> TRUE]

\* ------------------------------------------------------------ service
\* what chatSession.sendMessage can do for the request of stop n: reject,
\* or resolve with a result whose text is one of these (or is missing)
TurnTexts(n) ==
  { <<TurnDoc(n)>>,
    <<BT, "json", "\n", TurnDoc(n), "\n", BT>>,
    <<"\n", BT, "json", "\n", TurnDoc(n), "\n", BT>>,
    <<BT, "json", "\n", BT>>,
    <<"Sorry, I cannot help.">>,
    <<"{over}">>, <<"{nokey}">>, <<"{}">>, <<"null">>, <<>> }

TurnResults(n) ==
  {[threw |-> TRUE], [threw |-> FALSE]}
    \cup {[threw |-> FALSE, text |-> t] : t \in TurnTexts(n)}

\* what ai.models.generateContent can do for the bridge prompt
BridgeResults ==
  { [threw |-> TRUE], [threw |-> FALSE],
    [threw |-> FALSE, text |-> <<" ", "Yes, and silence is required here.", "\n">>] }

\* sendMessage with the inner catch rethrowing instead of substituting
sendMessageRethrows(session, result) ==
  IF session = "null" \/ result.threw THEN [threw |-> TRUE]
  ELSE LET raw == IF "text" \in DOMAIN result /\ result.text # <<>>
                    THEN result.text ELSE <<"{}">>
           parsed == JSONParse(Trim(StripFences(raw)))
       IN IF parsed.threw THEN [threw |-> TRUE]
          ELSE [threw |-> FALSE, turnData |-> parsed.value]

\* sendMessage with the outer catch substituting instead of rethrowing
sendMessageSwallows(session, result) ==
  IF session = "null" \/ result.threw
    THEN [threw |-> FALSE, turnData |-> Placeholder]
  ELSE LET raw == IF "text" \in DOMAIN result /\ result.text # <<>>
                    THEN result.text ELSE <<"{}">>
           parsed == JSONParse(Trim(StripFences(raw)))
       IN [ threw |-> FALSE,
            turnData |-> IF parsed.threw THEN Placeholder ELSE parsed.value ]

\* sendMessage, from the result of chatSession.sendMessage to what the
\* promise settles with; session is the module-level chatSession
sendMessage(session, result) ==
  IF session = "null" \/ result.threw THEN [threw |-> TRUE]
  ELSE LET raw == IF "text" \in DOMAIN result /\ result.text # <<>>
                    THEN result.text ELSE <<"{}">>
           text == Trim(StripFences(raw))
           parsed == JSONParse(text)
       IN [ threw |-> FALSE,
            turnData |-> IF parsed.threw THEN Placeholder ELSE parsed.value ]

\* generateBridgeResponse with a catch that returns the empty string
generateBridgeResponseEmpty(userInput, targetContext, result) ==
  IF result.threw \/ "text" \notin DOMAIN result THEN <<>>
  ELSE Trim(result.text)

\* generateBridgeResponse, from the result of generateContent to the string
\* the promise resolves with; reading .text of a result without text throws
\* inside the try block
generateBridgeResponse(userInput, targetContext, result) ==
  IF result.threw \/ "text" \notin DOMAIN result THEN targetContext
  ELSE Trim(result.text)

\* ------------------------------------------------------------ state
VARIABLES
  gameState,        \* useState<GameState>
  messages,         \* useState<ChatMessage[]>
  isProcessing,     \* useState(false)
  englishInput,     \* useState('')
  feedbackMessage,  \* useState<{text, type} | null>
  chatSession,      \* module-level handle of the service wrapper
  task,             \* the suspended async function and the values it closed over
  inflight,         \* positions in requests of the requests not yet settled
  requests,         \* every service request sent so far, in order
  lastCall          \* the handler or continuation that ran last, with its input

vars == << gameState, messages, isProcessing, englishInput, feedbackMessage,
           chatSession, task, inflight, requests, lastCall >>

NoFeedback == [type |-> "null"]

Idle == [pc |-> "idle"]

\* ------------------------------------------------------------ history
ModelEntries(msgs) == {i \in 1..Len(msgs) : msgs[i].role = "model"}

WrongEntries(msgs) ==
  {i \in 1..Len(msgs) : msgs[i].role = "user" /\ msgs[i].step = "grammar"
                          /\ ~msgs[i].isCorrect}

PlannedChallenges == {TurnChallenge(n) : n \in 1..TOTAL_TURNS}

OddEntries(msgs) ==
  {i \in ModelEntries(msgs) : msgs[i].structuredContent \notin PlannedChallenges}

\* the results the model lets the service give to the request of stop n
AllowedResults(n) ==
  {r \in TurnResults(n) :
     LET ret == sendMessage("chat", r)
     IN \/ ret.threw
        \/ ret.turnData = TurnChallenge(n)
        \/ Cardinality(OddEntries(messages)) < MaxOdd}

\* ------------------------------------------------------------ rendering
MainScreen == gameState.status \notin {"loading", "intro", "finished"}

PanelRendered ==
  MainScreen /\ Truthy(gameState.activeChallenge) /\ ~isProcessing

FormRendered == PanelRendered /\ gameState.turnStep = "concept"

\* options.map of a payload without options throws while rendering
OptionsRendered ==
  /\ PanelRendered
  /\ gameState.turnStep = "grammar"
  /\ "options" \in DOMAIN gameState.activeChallenge

\* ------------------------------------------------------------ requests
TurnRequest(message) == [api |-> "sendMessage", message |-> message]

BridgeRequest(userInput, targetContext) ==
  [api |-> "generateContent", userInput |-> userInput, targetContext |-> targetContext]

StartMessage == [sentinel |-> "START_GAME_MIZZOU_EDITION"]

\* the next-turn sentinel carrying the counter before its increment
NextMessageSameTurn(n) == [sentinel |-> "NEXT_TURN_", turn |-> n - 1]

\* the template literal NEXT_TURN_${n}
NextMessage(n) == [sentinel |-> "NEXT_TURN_", turn |-> n]

\* a call of sendMessage(message) that puts its request on the wire twice
SentTwice(session, message) ==
  IF session = "null" THEN <<>> ELSE <<TurnRequest(message), TurnRequest(message)>>

\* a call of sendMessage(message) that sends without looking at the session
SentWithoutSession(session, message) == <<TurnRequest(message)>>

\* the requests a call of sendMessage(message) puts on the wire
Sent(session, message) ==
  IF session = "null" THEN <<>> ELSE <<TurnRequest(message)>>

Range(seq) == {seq[i] : i \in 1..Len(seq)}

\* the positions in the log of the requests a step has sent
Issued(old, new) == (Len(old) + 1)..Len(new)

\* ------------------------------------------------------------ Init
Init ==
  /\ gameState = [ status |-> "intro", currentTurn |-> 1, maxTurns |-> TOTAL_TURNS,
                   activeChallenge |-> JSNull, turnStep |-> "concept" ]
  /\ messages = <<>>
  /\ isProcessing = FALSE
  /\ englishInput = <<>>
  /\ feedbackMessage = NoFeedback
  /\ chatSession = "null"
  /\ task = [pc |-> "mounted"]
  /\ inflight = {}
  /\ requests = <<>>
  /\ lastCall = [name |-> "mount"]

\* ------------------------------------------------------------ startQuest
\* initChat: chats.create either returns the session or throws
initChat(threw) == IF threw THEN chatSession ELSE "chat"

\* the catch of startQuest installing the placeholder challenge
FailedStateWithPlaceholder(prev) ==
  [prev EXCEPT !.status = "error", !.activeChallenge = Placeholder]

\* the catch of startQuest
FailedState(prev) == [prev EXCEPT !.status = "error"]

\* the state update of startQuest after the first turn has arrived, leaving
\* the status as it is
LoadedStateKeepsStatus(prev, turnData) ==
  [prev EXCEPT !.currentTurn = 1, !.activeChallenge = turnData, !.turnStep = "concept"]

\* the state update of startQuest after the first turn has arrived
LoadedState(prev, turnData) ==
  [prev EXCEPT !.status = "playing", !.currentTurn = 1,
               !.activeChallenge = turnData, !.turnStep = "concept"]

\* the mount effect, up to "await initChat()"
StartQuest ==
  /\ task.pc = "mounted"
  /\ \E threw \in BOOLEAN :
       /\ chatSession' = initChat(threw)
       /\ task' = [pc |-> "initChat", threw |-> threw]
  /\ gameState' = [gameState EXCEPT !.status = "loading"]
  /\ lastCall' = [name |-> "startQuest"]
  /\ UNCHANGED << messages, isProcessing, englishInput, feedbackMessage,
                  inflight, requests >>

\* startQuest resumes after initChat: the first turn request, or the catch
InitChatSettles ==
  /\ task.pc = "initChat"
  /\ IF task.threw
       THEN /\ gameState' = FailedState(gameState)
            /\ task' = Idle
            /\ UNCHANGED << inflight, requests >>
       ELSE /\ requests' = requests \o Sent(chatSession, StartMessage)
            /\ inflight' = inflight \cup Issued(requests, requests')
            /\ task' = [pc |-> "start", awaits |-> Issued(requests, requests')]
            /\ UNCHANGED gameState
  /\ lastCall' = [name |-> "initChat", threw |-> task.threw]
  /\ UNCHANGED << messages, isProcessing, englishInput, feedbackMessage, chatSession >>

\* a ChatMessage of the service (id, timestamp and groundingChunks are carried
\* along and never read by the controller)
ModelMessage(turnData) ==
  [role |-> "model", structuredContent |-> turnData, step |-> "concept"]

\* startQuest resumes after sendMessage("START_GAME_MIZZOU_EDITION")
StartSettles ==
  /\ task.pc = "start"
  /\ \E result \in AllowedResults(1) :
       LET ret == sendMessage(chatSession, result)
       IN /\ IF ret.threw
               THEN /\ gameState' = FailedState(gameState)
                    /\ UNCHANGED messages
               ELSE /\ messages' = <<ModelMessage(ret.turnData)>>
                    /\ gameState' = LoadedState(gameState, ret.turnData)
          /\ lastCall' = [name |-> "startSettled", result |-> result]
  /\ inflight' = inflight \ task.awaits
  /\ task' = Idle
  /\ UNCHANGED << isProcessing, englishInput, feedbackMessage, chatSession, requests >>

\* ------------------------------------------------------------ phase 1
\* what the user can type into the phase-1 input
UserTexts == { <<>>, <<" ">>, <<"keep quiet", " ">> }

\* onChange of the phase-1 input
TypeEnglish ==
  /\ FormRendered
  /\ \E text \in UserTexts :
       /\ text # englishInput
       /\ englishInput' = text
  /\ lastCall' = [name |-> "onChange"]
  /\ UNCHANGED << gameState, messages, isProcessing, feedbackMessage,
                  chatSession, task, inflight, requests >>

\* the guard of handleEnglishSubmit without the trim
SubmitRejectedNoTrim(input, processing, challenge) ==
  input = <<>> \/ processing \/ ~Truthy(challenge)

\* the guard of handleEnglishSubmit without the test of isProcessing
SubmitRejectedNoProcessing(input, processing, challenge) ==
  Trim(input) = <<>> \/ ~Truthy(challenge)

\* the guard of handleEnglishSubmit: true when the handler returns at once
SubmitRejected(input, processing, challenge) ==
  Trim(input) = <<>> \/ processing \/ ~Truthy(challenge)

\* the state update of handleEnglishSubmit after the bridge has arrived,
\* keeping the phase
BridgedStateKeepsStep(prev, bridgeText) ==
  [prev EXCEPT
     !.activeChallenge =
        IF Truthy(prev.activeChallenge)
          THEN Spread(prev.activeChallenge, "spanishConcept", bridgeText)
          ELSE JSNull]

\* the state update of handleEnglishSubmit after the bridge has arrived,
\* writing the sentence into the question
BridgedStateWrongKey(prev, bridgeText) ==
  [prev EXCEPT
     !.activeChallenge =
        IF Truthy(prev.activeChallenge)
          THEN Spread(prev.activeChallenge, "question", bridgeText)
          ELSE JSNull,
     !.turnStep = "grammar"]

\* the state update of handleEnglishSubmit after the bridge has arrived
BridgedState(prev, bridgeText) ==
  [prev EXCEPT
     !.activeChallenge =
        IF Truthy(prev.activeChallenge)
          THEN Spread(prev.activeChallenge, "spanishConcept", bridgeText)
          ELSE JSNull,
     !.turnStep = "grammar"]

\* the user's phase-1 entry holding the trimmed text
UserConceptMessageTrimmed(text) ==
  [role |-> "user", text |-> Trim(text), step |-> "concept"]

\* the user's phase-1 entry: the text as typed
UserConceptMessage(text) == [role |-> "user", text |-> text, step |-> "concept"]

\* handleEnglishSubmit, up to "await generateBridgeResponse(...)"
handleEnglishSubmit ==
  /\ IF SubmitRejected(englishInput, isProcessing, gameState.activeChallenge)
       THEN /\ lastCall' = [name |-> "handleEnglishSubmit", accepted |-> FALSE,
                            text |-> englishInput]
            /\ UNCHANGED << gameState, messages, isProcessing, englishInput,
                            feedbackMessage, chatSession, task, inflight, requests >>
       ELSE LET userInput == englishInput
                target == Get(gameState.activeChallenge, "spanishConcept")
            IN /\ englishInput' = <<>>
               /\ isProcessing' = TRUE
               /\ messages' = Append(messages, UserConceptMessage(userInput))
               /\ requests' = Append(requests, BridgeRequest(userInput, target))
               /\ inflight' = inflight \cup Issued(requests, requests')
               /\ task' = [pc |-> "bridge", gameState |-> gameState,
                           userInput |-> userInput, targetContext |-> target,
                           awaits |-> Issued(requests, requests')]
               /\ lastCall' = [name |-> "handleEnglishSubmit", accepted |-> TRUE,
                               text |-> userInput]
               /\ UNCHANGED << gameState, feedbackMessage, chatSession >>

\* onSubmit of the phase-1 form
HandleEnglishSubmit == FormRendered /\ handleEnglishSubmit

\* handleEnglishSubmit resumes after generateBridgeResponse, which resolves
\* in every case
BridgeSettles ==
  /\ task.pc = "bridge"
  /\ \E result \in BridgeResults :
       LET bridgeText == generateBridgeResponse(task.userInput, task.targetContext, result)
       IN /\ gameState' = BridgedState(gameState, bridgeText)
          /\ lastCall' = [name |-> "bridgeSettled", result |-> result]
  /\ isProcessing' = FALSE
  /\ inflight' = inflight \ task.awaits
  /\ task' = Idle
  /\ UNCHANGED << messages, englishInput, feedbackMessage, chatSession, requests >>

\* ------------------------------------------------------------ phase 2
UserGrammarMessage(option, isCorrect) ==
  [role |-> "user", text |-> option, isCorrect |-> isCorrect, step |-> "grammar"]

ErrorFeedback(challenge) ==
  [ type |-> "error",
    text |-> <<"Incorrect. ">> \o Get(challenge, "explanation") \o <<" Try again!">> ]

SuccessFeedback == [type |-> "success", text |-> <<"Correcto! Next stop...">>]

\* the comparison of handleOptionSelect testing membership of the options
IsCorrectAnyOption(selectedOption, challenge) ==
  selectedOption \in Range(Get(challenge, "options"))

\* the comparison of handleOptionSelect
IsCorrect(selectedOption, challenge) ==
  selectedOption = Get(challenge, "correctAnswer")

\* the guard of handleOptionSelect without the test of isProcessing
SelectRejectedNoProcessing(processing, challenge) == ~Truthy(challenge)

\* the guard of handleOptionSelect: true when the handler returns at once
SelectRejected(processing, challenge) == processing \/ ~Truthy(challenge)

\* the state update of a correct selection that leaves the challenge in place
ClearedStateKeeps(prev) == prev

\* the state update of a correct selection: the challenge is taken down
ClearedState(prev) == [prev EXCEPT !.activeChallenge = JSNull]

\* handleOptionSelect, up to the await of the 1500 ms timer
handleOptionSelect(selectedOption) ==
  LET isCorrect == IsCorrect(selectedOption, gameState.activeChallenge)
  IN /\ IF SelectRejected(isProcessing, gameState.activeChallenge)
          THEN /\ lastCall' = [name |-> "handleOptionSelect", accepted |-> FALSE,
                               option |-> selectedOption]
               /\ UNCHANGED << gameState, messages, isProcessing, feedbackMessage, task >>
          ELSE /\ messages' = Append(messages, UserGrammarMessage(selectedOption, isCorrect))
               /\ lastCall' = [name |-> "handleOptionSelect", accepted |-> TRUE,
                               option |-> selectedOption]
               /\ IF ~isCorrect
                    THEN /\ feedbackMessage' = ErrorFeedback(gameState.activeChallenge)
                         /\ UNCHANGED << gameState, isProcessing, task >>
                    ELSE /\ feedbackMessage' = SuccessFeedback
                         /\ isProcessing' = TRUE
                         /\ gameState' = ClearedState(gameState)
                         /\ task' = [pc |-> "delay", gameState |-> gameState]
     /\ UNCHANGED << englishInput, chatSession, inflight, requests >>

\* onClick of one of the option buttons
HandleOptionSelect ==
  /\ OptionsRendered
  /\ \E k \in 1..Len(gameState.activeChallenge.options) :
       LET selectedOption == gameState.activeChallenge.options[k]
       IN /\ \/ IsCorrect(selectedOption, gameState.activeChallenge)
             \/ Cardinality(WrongEntries(messages)) < MaxWrong
          /\ handleOptionSelect(selectedOption)

\* the end-of-game test one turn early
EndGameEarly(closure) == closure.currentTurn + 1 >= closure.maxTurns

\* the end-of-game test with a strict comparison
EndGameStrict(closure) == closure.currentTurn > closure.maxTurns

\* the end-of-game test reading the service's flag instead of the counter
EndGameByFlag(closure) == Get(closure.activeChallenge, "isGameOver") = TRUE

\* the end-of-game test of handleOptionSelect, on the gameState the handler
\* closed over
EndGame(closure) == closure.currentTurn >= closure.maxTurns

\* the state update of handleOptionSelect after the next turn has arrived,
\* keeping the phase
NextTurnStateKeepsStep(prev, turnData) ==
  [prev EXCEPT !.activeChallenge = turnData]

\* the state update of handleOptionSelect after the next turn has arrived,
\* leaving the challenge out
NextTurnStateDropsChallenge(prev, turnData) ==
  [prev EXCEPT !.turnStep = "concept"]

\* the state update of handleOptionSelect after the next turn has arrived
NextTurnState(prev, turnData) ==
  [prev EXCEPT !.activeChallenge = turnData, !.turnStep = "concept"]

\* an increment of the turn counter by two
AdvancedStateByTwo(prev) == [prev EXCEPT !.currentTurn = prev.currentTurn + 2]

\* the increment of the turn counter
AdvancedState(prev) == [prev EXCEPT !.currentTurn = prev.currentTurn + 1]

\* handleOptionSelect resumes after the timer: the game ends, or the turn
\* counter is incremented and the next turn is requested
DelayElapsed ==
  /\ task.pc = "delay"
  /\ feedbackMessage' = NoFeedback
  /\ IF EndGame(task.gameState)
       THEN /\ gameState' = [gameState EXCEPT !.status = "finished"]
            /\ isProcessing' = FALSE
            /\ task' = Idle
            /\ UNCHANGED << inflight, requests >>
       ELSE LET message == NextMessage(task.gameState.currentTurn + 1)
            IN /\ gameState' = AdvancedState(gameState)
               /\ requests' = requests \o Sent(chatSession, message)
               /\ inflight' = inflight \cup Issued(requests, requests')
               /\ task' = [pc |-> "next", gameState |-> task.gameState, message |-> message,
                           awaits |-> Issued(requests, requests')]
               /\ UNCHANGED isProcessing
  /\ lastCall' = [name |-> "delayElapsed"]
  /\ UNCHANGED << messages, englishInput, chatSession >>

\* handleOptionSelect resumes after sendMessage("NEXT_TURN_n")
NextSettles ==
  /\ task.pc = "next"
  /\ \E result \in AllowedResults(task.message.turn) :
       LET response == sendMessage(chatSession, result)
       IN /\ IF response.threw
               THEN UNCHANGED << messages, gameState >>
               ELSE /\ messages' = Append(messages, ModelMessage(response.turnData))
                    /\ gameState' = NextTurnState(gameState, response.turnData)
          /\ lastCall' = [name |-> "nextSettled", result |-> result]
  /\ isProcessing' = FALSE
  /\ inflight' = inflight \ task.awaits
  /\ task' = Idle
  /\ UNCHANGED << englishInput, feedbackMessage, chatSession, requests >>

\* ------------------------------------------------------------ restart
\* "Start New Semester": window.location.reload() builds the page anew
Reload ==
  /\ gameState.status = "finished"
  /\ gameState' = [ status |-> "intro", currentTurn |-> 1, maxTurns |-> TOTAL_TURNS,
                    activeChallenge |-> JSNull, turnStep |-> "concept" ]
  /\ messages' = <<>>
  /\ isProcessing' = FALSE
  /\ englishInput' = <<>>
  /\ feedbackMessage' = NoFeedback
  /\ chatSession' = "null"
  /\ task' = [pc |-> "mounted"]
  /\ inflight' = {}
  /\ requests' = <<>>
  /\ lastCall' = [name |-> "mount"]

\* ------------------------------------------------------------ Spec
Next ==
  \/ StartQuest
  \/ InitChatSettles
  \/ StartSettles
  \/ TypeEnglish
  \/ HandleEnglishSubmit
  \/ BridgeSettles
  \/ HandleOptionSelect
  \/ DelayElapsed
  \/ NextSettles
  \/ Reload

Spec == Init /\ [][Next]_vars

\* ------------------------------------------------------------ direct calls
\* The handlers of the current render are also reachable without their
\* controls: a test of the component calls them while the panel is not
\* rendered.  SpecCalls adds those calls in the states where a load, a
\* request or the pacing timer is pending, in the final states and in the
\* states left without a challenge, and a call of the service module's
\* sendMessage while no session exists.
Pending == task.pc # "idle"

Terminal == gameState.status \in {"finished", "error"}

\* status playing with no challenge and nothing pending: the panel is hidden
Stranded ==
  /\ gameState.status = "playing"
  /\ ~Truthy(gameState.activeChallenge)
  /\ task = Idle

\* setEnglishInput called while the form is not rendered
CallSetEnglishInput ==
  /\ ~FormRendered
  /\ Pending \/ Terminal \/ Stranded
  /\ \E text \in UserTexts :
       /\ text # englishInput
       /\ englishInput' = text
  /\ lastCall' = [name |-> "onChange"]
  /\ UNCHANGED << gameState, messages, isProcessing, feedbackMessage,
                  chatSession, task, inflight, requests >>

\* handleEnglishSubmit called while the form is not rendered
CallEnglishSubmit ==
  /\ ~FormRendered
  /\ Pending \/ Terminal \/ Stranded
  /\ handleEnglishSubmit

\* the option a direct call of handleOptionSelect passes
CalledOptions == { <<"Se exige">> }

\* handleOptionSelect called while the options are not rendered
CallOptionSelect ==
  /\ ~OptionsRendered
  /\ Pending \/ Terminal \/ Stranded
  /\ \E selectedOption \in CalledOptions : handleOptionSelect(selectedOption)

\* sendMessage of the service module called while no session exists, with a
\* service that would answer well
CallSendMessage ==
  /\ chatSession = "null"
  /\ LET ret == sendMessage(chatSession, [threw |-> FALSE, text |-> <<TurnDoc(1)>>])
     IN lastCall' = [name |-> "sendMessage", threw |-> ret.threw]
  /\ requests' = requests \o Sent(chatSession, StartMessage)
  /\ inflight' = inflight \cup Issued(requests, requests')
  /\ UNCHANGED << gameState, messages, isProcessing, englishInput, feedbackMessage,
                  chatSession, task >>

NextCalls ==
  \/ Next
  \/ CallSetEnglishInput
  \/ CallEnglishSubmit
  \/ CallOptionSelect
  \/ CallSendMessage

SpecCalls == Init /\ [][NextCalls]_vars

\* the bridging call comes back: generateContent resolves or rejects, and
\* generateBridgeResponse resolves either way
FairSpec == Spec /\ WF_vars(BridgeSettles)

\* ------------------------------------------------------------ properties
\* the handler or continuation called name is the one that ran
Settled(call, name) == call.name = name

\* a turn request that came back with a rejection
Threw(call) == call.result.threw

\* the text sendMessage parses: the result's text, or the empty object's
Payload(result) ==
  IF "text" \in DOMAIN result /\ result.text # <<>> THEN result.text ELSE <<"{}">>

\* a turn request that came back with text JSON.parse rejects
Unparseable(call) ==
  ~call.result.threw /\ JSONParse(Trim(StripFences(Payload(call.result)))).threw

\* a text of white space only
Blank(text) == \A i \in 1..Len(text) : text[i] \in {" ", "\n"}

\* C1: in every session the turn counter stays between 1 and maxTurns and no
\* step other than the restart lowers it
C1_TurnMonotoneBounded ==
  /\ [](gameState.currentTurn >= 1 /\ gameState.currentTurn <= gameState.maxTurns)
  /\ [][Reload \/ gameState'.currentTurn >= gameState.currentTurn]_vars

\* the counter has reached the last stop by ten increments
C1_Witness ==
  /\ gameState.currentTurn = TOTAL_TURNS
  /\ task.pc = "next"
  /\ Len(requests) >= TOTAL_TURNS

\* C2: outside the window between a correct selection and the settling of the
\* next turn request, a challenge is active exactly when status is playing
C2_ChallengeIffPlaying ==
  task.pc \notin {"delay", "next"} =>
    (Truthy(gameState.activeChallenge) <=> gameState.status = "playing")

\* C3: a wrong selection made while nothing is pending changes no field of
\* gameState, sends no request, appends exactly one user entry and leaves
\* the panel open for the next selection
C3_WrongSelectionFrame ==
  [][ ( /\ Settled(lastCall', "handleOptionSelect")
        /\ ~isProcessing /\ inflight = {}
        /\ lastCall'.option # Get(gameState.activeChallenge, "correctAnswer") )
      => ( /\ gameState' = gameState
           /\ requests' = requests /\ inflight' = {}
           /\ messages' = Append(messages, [ role |-> "user", text |-> lastCall'.option,
                                             isCorrect |-> FALSE, step |-> "grammar" ])
           /\ ~isProcessing' /\ task' = Idle /\ OptionsRendered' ) ]_vars

\* two wrong selections in a row were followed by an accepted correct one
C3_Witness ==
  \E i \in 1..Len(messages) :
    /\ i + 2 <= Len(messages)
    /\ \A j \in {i, i + 1} : messages[j].role = "user" /\ messages[j].step = "grammar"
                               /\ ~messages[j].isCorrect
    /\ messages[i + 2].role = "user" /\ messages[i + 2].step = "grammar"
    /\ messages[i + 2].isCorrect

\* C4: on the last turn the correct selection sends nothing, the step after
\* the pacing delay sets status to finished and sends nothing, and nothing is
\* sent while status is finished
C4_FinishWithoutRequest ==
  /\ [][ ( /\ Settled(lastCall', "handleOptionSelect")
           /\ gameState.currentTurn = gameState.maxTurns )
         => (requests' = requests /\ inflight' = {}) ]_vars
  /\ [][ ( /\ task.pc = "delay"
           /\ gameState.currentTurn = gameState.maxTurns )
         => ( /\ gameState'.status = "finished"
              /\ requests' = requests /\ inflight' = {} ) ]_vars
  /\ [][ gameState.status = "finished"
         => (Reload \/ (requests' = requests /\ inflight' = {})) ]_vars

\* the game has ended on the correct answer of the last turn
C4_Witness ==
  /\ gameState.status = "finished"
  /\ gameState.currentTurn = gameState.maxTurns
  /\ messages[Len(messages)].isCorrect
  /\ Len(requests) = 2 * TOTAL_TURNS

\* C5: a phase-1 submission of an empty or white-space-only text is rejected:
\* no state variable changes, so no request is sent and no entry appended
C5_BlankSubmissionRejected ==
  [][ (Settled(lastCall', "handleEnglishSubmit") /\ Blank(englishInput))
      => ( /\ ~lastCall'.accepted
           /\ UNCHANGED << gameState, messages, isProcessing, englishInput,
                           feedbackMessage, chatSession, task, inflight, requests >> ) ]_vars

\* a white-space-only text has been submitted and rejected
C5_Witness ==
  /\ Settled(lastCall, "handleEnglishSubmit")
  /\ ~lastCall.accepted
  /\ lastCall.text = <<" ">>
  /\ gameState.turnStep = "concept"

\* C6: when the bridging call fails, the phase becomes grammar and
\* spanishConcept is what it was when the text was submitted
C6_BridgeFailureFallsBack ==
  [][ ( /\ Settled(lastCall', "bridgeSettled")
        /\ (lastCall'.result.threw \/ "text" \notin DOMAIN lastCall'.result) )
      => ( /\ gameState'.turnStep = "grammar"
           /\ Truthy(gameState'.activeChallenge)
           /\ Get(gameState'.activeChallenge, "spanishConcept")
                = Get(task.gameState.activeChallenge, "spanishConcept")
           /\ ~isProcessing' ) ]_vars

\* the bridging call has been rejected after an accepted submission
C6_Witness ==
  /\ Settled(lastCall, "bridgeSettled")
  /\ lastCall.result.threw
  /\ gameState.turnStep = "grammar"
  /\ gameState.activeChallenge.spanishConcept = <<"We need to be quiet">>

\* C7: when the next-turn request started at turn n < maxTurns resolves, the
\* counter is n + 1, the phase is concept, the delivered challenge is active
\* and status is still playing
C7_NextTurnInstalled ==
  [][ (Settled(lastCall', "nextSettled") /\ ~Threw(lastCall'))
      => ( /\ task.gameState.currentTurn < task.gameState.maxTurns
           /\ gameState'.currentTurn = task.gameState.currentTurn + 1
           /\ gameState'.turnStep = "concept"
           /\ gameState'.activeChallenge = sendMessage(chatSession, lastCall'.result).turnData
           /\ gameState'.status = "playing" ) ]_vars

\* the second stop has been delivered after the first was answered
C7_Witness ==
  /\ Settled(lastCall, "nextSettled")
  /\ gameState.currentTurn = 2
  /\ gameState.turnStep = "concept"
  /\ gameState.activeChallenge = TurnChallenge(2)
  /\ gameState.status = "playing"

\* C8: when session creation or the first turn request throws, status becomes
\* error, no challenge is active and the history has no service entry; and
\* that is so in every state with status error
C8_InitialLoadFailure ==
  /\ [][ ( \/ (Settled(lastCall', "initChat") /\ lastCall'.threw)
           \/ (Settled(lastCall', "startSettled") /\ Threw(lastCall')) )
         => ( /\ gameState'.status = "error"
              /\ gameState'.activeChallenge = JSNull
              /\ ModelEntries(messages') = {} ) ]_vars
  /\ [](gameState.status = "error"
          => gameState.activeChallenge = JSNull /\ ModelEntries(messages) = {})

\* the first turn request has been rejected
C8_Witness ==
  /\ Settled(lastCall, "startSettled")
  /\ Threw(lastCall)
  /\ gameState.status = "error"

\* C9: when a next-turn request throws or returns an unparseable payload, the
\* placeholder challenge becomes the active challenge
C9_PlaceholderAfterFailedFetch ==
  [][ (Settled(lastCall', "nextSettled") /\ (Threw(lastCall') \/ Unparseable(lastCall')))
      => gameState'.activeChallenge = Placeholder ]_vars

\* C10: when a turn request returns an unparseable payload, the placeholder
\* challenge becomes active in phase concept, an entry presenting it is
\* appended and status is playing
C10_UnparseablePayloadRecovered ==
  [][ ( /\ Settled(lastCall', "startSettled") \/ Settled(lastCall', "nextSettled")
        /\ Unparseable(lastCall') )
      => ( /\ gameState'.activeChallenge = Placeholder
           /\ gameState'.turnStep = "concept"
           /\ gameState'.status = "playing"
           /\ messages' = Append(messages, [ role |-> "model",
                                             structuredContent |-> Placeholder,
                                             step |-> "concept" ]) ) ]_vars

\* a next-turn request has come back with a fenced payload the wrapper could
\* not parse
C10_Witness ==
  /\ Settled(lastCall, "nextSettled")
  /\ Unparseable(lastCall)
  /\ gameState.activeChallenge = Placeholder
  /\ gameState.currentTurn = 2

\* C11: once status is finished or error, no call of a handler and no
\* settling of a request changes gameState or the history or sends a request,
\* nothing is pending there, and only the restart leaves such a state
C11_TerminalStatesAbsorb ==
  /\ [](Terminal => (task = Idle /\ inflight = {} /\ ~PanelRendered))
  /\ [][ Terminal
         => ( \/ Reload
              \/ ( /\ gameState' = gameState
                   /\ messages' = messages
                   /\ requests' = requests
                   /\ inflight' = inflight ) ) ]_vars

\* after the game has ended, a direct call of handleEnglishSubmit with a
\* typed text has been turned away
C11_Witness ==
  /\ gameState.status = "finished"
  /\ Settled(lastCall, "handleEnglishSubmit")
  /\ ~lastCall.accepted
  /\ ~Blank(lastCall.text)
  /\ Len(requests) = 2 * TOTAL_TURNS

\* C12: in every reachable state at most one service request is outstanding:
\* it is the last one sent, and the task that sent it is waiting for it
C12_OneRequestOutstanding ==
  /\ Cardinality(inflight) <= 1
  /\ inflight \subseteq {Len(requests)}
  /\ inflight # {} => (task.pc \in {"start", "bridge", "next"} /\ task.awaits = inflight)

\* a bridging request is outstanding and a second submission of a typed text,
\* called directly, has been turned away
C12_Witness ==
  /\ Cardinality(inflight) = 1
  /\ \A i \in inflight : requests[i].api = "generateContent"
  /\ Settled(lastCall, "handleEnglishSubmit")
  /\ ~lastCall.accepted
  /\ ~Blank(lastCall.text)
  /\ gameState.currentTurn = 2

\* C13: a call of handleEnglishSubmit or handleOptionSelect made while the
\* initial load, a bridging request or a next-turn request is outstanding
\* returns at once: no state variable changes, so no entry is appended and no
\* request is sent
C13_InputIgnoredWhileOutstanding ==
  [][ ( /\ task.pc \in {"initChat", "start", "bridge", "next"}
        /\ Settled(lastCall', "handleEnglishSubmit") \/ Settled(lastCall', "handleOptionSelect") )
      => ( /\ ~lastCall'.accepted
           /\ UNCHANGED << gameState, messages, isProcessing, englishInput,
                           feedbackMessage, chatSession, task, inflight, requests >> ) ]_vars

\* while the bridging request was outstanding and the challenge still active,
\* a direct call of handleOptionSelect with the correct answer was turned away
C13_Witness ==
  /\ task.pc = "bridge"
  /\ inflight # {}
  /\ Truthy(gameState.activeChallenge)
  /\ Settled(lastCall, "handleOptionSelect")
  /\ ~lastCall.accepted
  /\ lastCall.option = Get(gameState.activeChallenge, "correctAnswer")

\* C14: the history is append-only: every step other than the restart leaves
\* messages as it is or adds exactly one entry at its end; every accepted
\* phase-1 submission adds the user's entry with the text as typed, every
\* accepted selection adds the user's entry with the option, and every
\* delivered challenge adds the service's entry carrying it
C14_HistoryAppendOnly ==
  /\ [][ \/ Reload
         \/ messages' = messages
         \/ ( /\ Len(messages') = Len(messages) + 1
              /\ SubSeq(messages', 1, Len(messages)) = messages ) ]_vars
  /\ [][ (Settled(lastCall', "handleEnglishSubmit") /\ lastCall'.accepted)
         => messages' = Append(messages, [ role |-> "user", text |-> englishInput,
                                           step |-> "concept" ]) ]_vars
  /\ [][ (Settled(lastCall', "handleOptionSelect") /\ lastCall'.accepted)
         => ( /\ Len(messages') = Len(messages) + 1
              /\ SubSeq(messages', 1, Len(messages)) = messages
              /\ messages'[Len(messages')].role = "user"
              /\ messages'[Len(messages')].text = lastCall'.option
              /\ messages'[Len(messages')].step = "grammar" ) ]_vars
  /\ [][ ( /\ Settled(lastCall', "startSettled") \/ Settled(lastCall', "nextSettled")
           /\ ~Threw(lastCall') )
         => messages' = Append(messages,
                               [ role |-> "model",
                                 structuredContent |->
                                   sendMessage(chatSession, lastCall'.result).turnData,
                                 step |-> "concept" ]) ]_vars

\* the history holds, in order, the first challenge, the text as typed, a
\* wrong selection, the correct selection and the second challenge
C14_Witness ==
  /\ Len(messages) = 5
  /\ messages[1].role = "model" /\ messages[1].structuredContent = TurnChallenge(1)
  /\ messages[2] = [role |-> "user", text |-> <<"keep quiet", " ">>, step |-> "concept"]
  /\ messages[3].role = "user" /\ ~messages[3].isCorrect
  /\ messages[4].role = "user" /\ messages[4].isCorrect
  /\ messages[5].role = "model" /\ messages[5].structuredContent = TurnChallenge(2)

\* C15: the phase goes from concept to grammar only when the bridging call of
\* the active challenge settles, and from grammar back to concept only in the
\* step that installs the challenge a next-turn request delivered (or in the
\* restart); so it changes at most once while one challenge is active
C15_PhaseOneWay ==
  /\ [][ (gameState.turnStep = "concept" /\ gameState'.turnStep = "grammar")
         => ( /\ Settled(lastCall', "bridgeSettled")
              /\ Truthy(gameState.activeChallenge) ) ]_vars
  /\ [][ (gameState.turnStep = "grammar" /\ gameState'.turnStep = "concept")
         => ( \/ Reload
              \/ ( /\ Settled(lastCall', "nextSettled")
                   /\ ~Threw(lastCall')
                   /\ ~Truthy(gameState.activeChallenge)
                   /\ gameState'.activeChallenge
                        = sendMessage(chatSession, lastCall'.result).turnData
                   /\ messages'[Len(messages')].role = "model"
                   /\ messages'[Len(messages')].structuredContent
                        = gameState'.activeChallenge ) ) ]_vars

\* the second challenge, installed in phase concept after the first had
\* reached phase grammar, has reached phase grammar in its turn
C15_Witness ==
  /\ Settled(lastCall, "bridgeSettled")
  /\ gameState.currentTurn = 2
  /\ gameState.turnStep = "grammar"
  /\ gameState.activeChallenge # JSNull
  /\ Cardinality(ModelEntries(messages)) = 2

\* C16: no turn request is outstanding while a challenge is active, and none
\* is sent in a step that starts or ends with an active challenge: the next
\* turn is requested only after the correct selection has taken the
\* challenge down
C16_NoTurnRequestWhileChallengeActive ==
  /\ [](\A i \in inflight :
          requests[i].api = "sendMessage" => ~Truthy(gameState.activeChallenge))
  /\ [][ ( /\ Len(requests') > Len(requests)
           /\ requests'[Len(requests')].api = "sendMessage" )
         => ( /\ ~Truthy(gameState.activeChallenge)
              /\ ~Truthy(gameState'.activeChallenge) ) ]_vars
  /\ [][ ( /\ Len(requests') > Len(requests)
           /\ requests'[Len(requests')].api = "sendMessage"
           /\ requests'[Len(requests')].message # StartMessage )
         => ( /\ messages # <<>>
              /\ messages[Len(messages)].role = "user"
              /\ messages[Len(messages)].step = "grammar"
              /\ messages[Len(messages)].isCorrect ) ]_vars

\* the request of the second turn is outstanding and no challenge is active
C16_Witness ==
  /\ requests # <<>>
  /\ requests[Len(requests)] = TurnRequest(NextMessage(2))
  /\ inflight = {Len(requests)}
  /\ gameState.activeChallenge = JSNull
  /\ gameState.status = "playing"

\* C17: while the pacing timer runs nothing is outstanding, no challenge is
\* active, isProcessing is set and the panel is hidden; the correct selection
\* that starts the timer and every call made while it runs send nothing and
\* leave gameState and the history alone; a next-turn request is sent only by
\* the step that resumes after the timer
C17_PacingDelayQuiet ==
  /\ [](task.pc = "delay"
          => ( /\ inflight = {}
               /\ gameState.activeChallenge = JSNull
               /\ isProcessing
               /\ ~PanelRendered ))
  /\ [][ task'.pc = "delay" => requests' = requests ]_vars
  /\ [][ (task.pc = "delay" /\ task'.pc = "delay")
         => (gameState' = gameState /\ messages' = messages /\ isProcessing') ]_vars
  /\ [][ ( /\ Len(requests') > Len(requests)
           /\ requests'[Len(requests')].api = "sendMessage"
           /\ requests'[Len(requests')].message # StartMessage )
         => (task.pc = "delay" /\ Settled(lastCall', "delayElapsed")) ]_vars

\* the timer runs after the correct answer of the first turn, and a direct
\* call of handleEnglishSubmit with a typed text has been turned away
C17_Witness ==
  /\ task.pc = "delay"
  /\ feedbackMessage = SuccessFeedback
  /\ Settled(lastCall, "handleEnglishSubmit")
  /\ ~lastCall.accepted
  /\ ~Blank(englishInput)
  /\ Len(requests) = 2

\* C18: when the bridging call comes back in the end, every accepted phase-1
\* submission is followed by a state in phase grammar where nothing is
\* pending and isProcessing is clear, so that input is taken again
C18_SubmissionReachesGrammar ==
  (task.pc = "bridge" /\ isProcessing)
    ~> ( /\ gameState.turnStep = "grammar"
         /\ ~isProcessing
         /\ inflight = {}
         /\ task = Idle )

\* the bridging call of the first turn has returned its sentence and the
\* options are offered
C18_Witness ==
  /\ Settled(lastCall, "bridgeSettled")
  /\ ~lastCall.result.threw
  /\ "text" \in DOMAIN lastCall.result
  /\ gameState.currentTurn = 1
  /\ gameState.turnStep = "grammar"
  /\ OptionsRendered

\* C19: no request is sent again by the program itself.  Every step that
\* sends sends one request: the first turn request at session start, a
\* bridging request in the step that accepts a phase-1 submission, or a
\* next-turn request after the timer started by an accepted correct
\* selection; so the requests after the first never outnumber the accepted
\* submissions and correct selections.  The step in which a request fails
\* sends nothing and leaves nothing pending, and from a state with nothing
\* pending only an accepted submission sends
C19_NoAutomaticRetry ==
  /\ [][ requests' # requests
         => ( \/ Reload
              \/ ( /\ Len(requests') = Len(requests) + 1
                   /\ SubSeq(requests', 1, Len(requests)) = requests
                   /\ LET sent == requests'[Len(requests')]
                      IN \/ /\ sent = TurnRequest(StartMessage)
                            /\ requests = <<>>
                            /\ Settled(lastCall', "initChat")
                         \/ /\ sent.api = "generateContent"
                            /\ Settled(lastCall', "handleEnglishSubmit")
                            /\ lastCall'.accepted
                            /\ sent.userInput = lastCall'.text
                         \/ /\ sent.api = "sendMessage"
                            /\ sent.message # StartMessage
                            /\ Settled(lastCall', "delayElapsed")
                            /\ messages[Len(messages)].role = "user"
                            /\ messages[Len(messages)].step = "grammar"
                            /\ messages[Len(messages)].isCorrect ) ) ]_vars
  /\ [](Len(requests)
          <= 1 + Cardinality({i \in 1..Len(messages) :
                                /\ messages[i].role = "user"
                                /\ messages[i].step = "concept" \/ messages[i].isCorrect}))
  /\ [][ ( /\ \/ Settled(lastCall', "startSettled")
              \/ Settled(lastCall', "nextSettled")
              \/ Settled(lastCall', "bridgeSettled")
           /\ Threw(lastCall') )
         => (requests' = requests /\ inflight' = {} /\ task' = Idle) ]_vars
  /\ [][ (task = Idle /\ requests' # requests)
         => (Reload \/ (Settled(lastCall', "handleEnglishSubmit") /\ lastCall'.accepted)) ]_vars

\* the request of the second turn has been rejected: three requests were
\* sent for the start and two accepted inputs, and nothing is pending
C19_Witness ==
  /\ Settled(lastCall, "nextSettled")
  /\ Threw(lastCall)
  /\ Len(requests) = 3
  /\ requests[3] = TurnRequest(NextMessage(2))
  /\ inflight = {}
  /\ task = Idle

\* C20: while a challenge is active its fields other than spanishConcept are
\* the ones the service delivered; the challenge changes only in the step
\* where the bridging call settles in phase concept, and only in
\* spanishConcept, which a successful call sets to the text
\* generateBridgeResponse returns; at most one submission is accepted for one
\* delivered challenge, so the field is written at most once a turn
C20_OnlySpanishConceptChanges ==
  /\ [](Truthy(gameState.activeChallenge)
          => LET delivered == messages[CHOOSE i \in ModelEntries(messages) :
                                         \A j \in ModelEntries(messages) : j <= i
                                      ].structuredContent
             IN /\ DOMAIN gameState.activeChallenge \ {"spanishConcept"}
                     = DOMAIN delivered \ {"spanishConcept"}
                /\ \A k \in DOMAIN delivered \ {"spanishConcept"} :
                     gameState.activeChallenge[k] = delivered[k])
  /\ [][ ( /\ Truthy(gameState.activeChallenge)
           /\ Truthy(gameState'.activeChallenge)
           /\ gameState'.activeChallenge # gameState.activeChallenge )
         => ( /\ Settled(lastCall', "bridgeSettled")
              /\ gameState.turnStep = "concept"
              /\ gameState'.turnStep = "grammar"
              /\ gameState'.activeChallenge
                   = Spread(gameState.activeChallenge, "spanishConcept",
                            gameState'.activeChallenge.spanishConcept) ) ]_vars
  /\ [][ ( /\ Settled(lastCall', "bridgeSettled")
           /\ ~lastCall'.result.threw
           /\ "text" \in DOMAIN lastCall'.result )
         => gameState'.activeChallenge
              = Spread(gameState.activeChallenge, "spanishConcept",
                       Trim(lastCall'.result.text)) ]_vars
  /\ [](\A i \in ModelEntries(messages) :
          Cardinality({j \in i + 1..Len(messages) :
                         /\ messages[j].role = "user"
                         /\ messages[j].step = "concept"
                         /\ \A k \in ModelEntries(messages) : k <= i \/ k > j}) <= 1)

\* the bridging call of the second turn has replaced spanishConcept by its
\* trimmed sentence and every other field is as delivered
C20_Witness ==
  /\ Settled(lastCall, "bridgeSettled")
  /\ gameState.currentTurn = 2
  /\ gameState.activeChallenge
       = Spread(TurnChallenge(2), "spanishConcept",
                <<"Yes, and silence is required here.">>)
  /\ gameState.activeChallenge # TurnChallenge(2)

\* C21: when the next-turn request sent after the correct selection of turn
\* n < maxTurns is rejected, the counter stays at n + 1, no entry is
\* appended, no challenge is active, status is playing and nothing is
\* pending; from that state no call of a handler changes gameState or the
\* history or sends a request
C21_FailedFetchStrands ==
  /\ [][ (Settled(lastCall', "nextSettled") /\ Threw(lastCall'))
         => ( /\ task.gameState.currentTurn < task.gameState.maxTurns
              /\ gameState.currentTurn = task.gameState.currentTurn + 1
              /\ gameState'.currentTurn = gameState.currentTurn
              /\ messages' = messages
              /\ messages[Len(messages)].role = "user"
              /\ gameState'.activeChallenge = JSNull
              /\ gameState'.status = "playing"
              /\ Stranded' ) ]_vars
  /\ [][ Stranded
         => ( /\ gameState' = gameState
              /\ messages' = messages
              /\ requests' = requests
              /\ inflight' = {}
              /\ ~PanelRendered'
              /\ Stranded' ) ]_vars

\* after the request of the third turn was rejected, a direct call of
\* handleOptionSelect has been turned away and the counter is still 3
C21_Witness ==
  /\ Stranded
  /\ gameState.currentTurn = 3
  /\ Cardinality(ModelEntries(messages)) = 2
  /\ requests[Len(requests)] = TurnRequest(NextMessage(3))
  /\ gameState.turnStep = "grammar"
  /\ Settled(lastCall, "handleOptionSelect")
  /\ ~lastCall.accepted

\* C22: every active challenge has a non-empty sequence of options
C22_ChoicesNonEmpty ==
  Truthy(gameState.activeChallenge)
    => ( /\ "options" \in DOMAIN gameState.activeChallenge
         /\ Len(gameState.activeChallenge.options) >= 1 )

\* a request made through sendMessage
IsTurnRequest(r) == r.api = "sendMessage"

\* C23: the step that sends a next-turn request raises the counter by one and
\* the request carries the raised counter; the turn requests of a session are
\* START, NEXT_TURN_2, NEXT_TURN_3, ... in this order without a gap or a
\* repeat, and there are at most maxTurns of them
C23_TurnRequestsConsecutive ==
  /\ [][ ( /\ Len(requests') > Len(requests)
           /\ IsTurnRequest(requests'[Len(requests')])
           /\ requests'[Len(requests')].message # StartMessage )
         => ( /\ gameState'.currentTurn = gameState.currentTurn + 1
              /\ requests'[Len(requests')].message
                   = [sentinel |-> "NEXT_TURN_", turn |-> gameState'.currentTurn] ) ]_vars
  /\ [](LET turns == SelectSeq(requests, IsTurnRequest)
        IN /\ Len(turns) <= gameState.maxTurns
           /\ \A i \in 1..Len(turns) :
                turns[i].message = IF i = 1 THEN StartMessage
                                   ELSE [sentinel |-> "NEXT_TURN_", turn |-> i])

\* the request of the last turn is outstanding: it is the tenth turn request
C23_Witness ==
  /\ Len(SelectSeq(requests, IsTurnRequest)) = TOTAL_TURNS
  /\ inflight # {}
  /\ requests[Len(requests)] = TurnRequest(NextMessage(TOTAL_TURNS))
  /\ WrongEntries(messages) # {}

\* C24: while a challenge is active, the history holds as many entries of the
\* service as the counter says, and the last of them presents the challenge
\* delivered for the active turn: the active challenge, but for the
\* spanishConcept the bridge may have replaced
C24_EntriesMatchCounter ==
  /\ [](Truthy(gameState.activeChallenge)
          => /\ Cardinality(ModelEntries(messages)) = gameState.currentTurn
             /\ \E i \in ModelEntries(messages) :
                  /\ \A j \in ModelEntries(messages) : j <= i
                  /\ \A k \in DOMAIN messages[i].structuredContent \ {"spanishConcept"} :
                       messages[i].structuredContent[k] = gameState.activeChallenge[k])
  /\ [][ (~Truthy(gameState.activeChallenge) /\ Truthy(gameState'.activeChallenge))
         => ( /\ messages'[Len(messages')].role = "model"
              /\ messages'[Len(messages')].structuredContent = gameState'.activeChallenge
              /\ Len(messages') = Len(messages) + 1
              /\ Cardinality(ModelEntries(messages')) = gameState'.currentTurn ) ]_vars

\* at the fourth turn the history holds four entries of the service and the
\* bridge has replaced the spanishConcept of the active challenge
C24_Witness ==
  /\ gameState.currentTurn = 4
  /\ Truthy(gameState.activeChallenge)
  /\ Cardinality(ModelEntries(messages)) = 4
  /\ gameState.turnStep = "grammar"
  /\ \E i \in ModelEntries(messages) :
       /\ \A j \in ModelEntries(messages) : j <= i
       /\ messages[i].structuredContent = TurnChallenge(4)
       /\ gameState.activeChallenge # TurnChallenge(4)

\* the challenge with its end-of-game flag set to flag
WithFlag(challenge, flag) ==
  IF "isGameOver" \in DOMAIN challenge THEN [challenge EXCEPT !.isGameOver = flag]
  ELSE challenge

\* the part of gameState the two runs are compared on
Visible(gs) == << gs.status, gs.currentTurn, gs.turnStep >>

\* C25: status becomes finished only in the step after the timer, and there
\* exactly when the counter the handler closed over has reached maxTurns,
\* whatever the flag of the answered challenge; and every test and state
\* update of the handlers gives the same status, counter and phase when the
\* flag of the challenge is replaced by the other value, so two runs that
\* differ in the flags only pass through the same status, counter and phase
C25_FlagDoesNotEndGame ==
  /\ [][ (gameState.status # "finished" /\ gameState'.status = "finished")
         => ( /\ task.pc = "delay"
              /\ task.gameState.currentTurn >= task.gameState.maxTurns ) ]_vars
  /\ [][ task.pc = "delay" /\ Settled(lastCall', "delayElapsed")
         => ( gameState'.status = "finished"
                <=> task.gameState.currentTurn >= task.gameState.maxTurns ) ]_vars
  /\ [](\A flag \in BOOLEAN :
          LET twin == [gameState EXCEPT !.activeChallenge = WithFlag(@, flag)]
          IN /\ OptionsRendered => (EndGame(twin) = EndGame(gameState))
             /\ SubmitRejected(englishInput, isProcessing, twin.activeChallenge)
                  = SubmitRejected(englishInput, isProcessing, gameState.activeChallenge)
             /\ SelectRejected(isProcessing, twin.activeChallenge)
                  = SelectRejected(isProcessing, gameState.activeChallenge)
             /\ OptionsRendered
                  => \A option \in Range(gameState.activeChallenge.options) :
                       IsCorrect(option, twin.activeChallenge)
                         = IsCorrect(option, gameState.activeChallenge)
             /\ Visible(ClearedState(twin)) = Visible(ClearedState(gameState))
             /\ Visible(AdvancedState(twin)) = Visible(AdvancedState(gameState))
             /\ Visible(BridgedState(twin, <<>>)) = Visible(BridgedState(gameState, <<>>))
             /\ Visible(NextTurnState(gameState, twin.activeChallenge))
                  = Visible(NextTurnState(gameState, gameState.activeChallenge))
             /\ Visible(LoadedState(gameState, twin.activeChallenge))
                  = Visible(LoadedState(gameState, gameState.activeChallenge)))
  /\ [](task.pc = "delay"
          => \A flag \in BOOLEAN :
               EndGame([task.gameState EXCEPT !.activeChallenge = WithFlag(@, flag)])
                 = EndGame(task.gameState))

\* the first challenge came with the flag raised, was answered correctly,
\* and the second turn is being played
C25_Witness ==
  /\ messages # <<>>
  /\ messages[1].role = "model"
  /\ messages[1].structuredContent = OverChallenge
  /\ gameState.status = "playing"
  /\ gameState.currentTurn = 2
  /\ gameState.activeChallenge = TurnChallenge(2)

\* the challenge is the placeholder, whatever the bridge wrote into it
IsPlaceholder(challenge) ==
  /\ Truthy(challenge)
  /\ Spread(challenge, "spanishConcept", Placeholder.spanishConcept) = Placeholder

\* C26: the placeholder offers one option and it is its correct answer; a
\* selection made while the placeholder is active is taken as correct: the
\* user's entry is marked correct, the challenge is taken down and the timer
\* started; and the step after the timer ends the game on the last turn and
\* otherwise raises the counter and sends the next-turn request
C26_PlaceholderCompletable ==
  /\ [][ ( /\ Settled(lastCall', "handleOptionSelect")
           /\ OptionsRendered
           /\ IsPlaceholder(gameState.activeChallenge) )
         => ( /\ Len(gameState.activeChallenge.options) = 1
              /\ lastCall'.option = gameState.activeChallenge.correctAnswer
              /\ lastCall'.accepted
              /\ messages' = Append(messages, [ role |-> "user", text |-> <<"Reload">>,
                                                isCorrect |-> TRUE, step |-> "grammar" ])
              /\ gameState'.activeChallenge = JSNull
              /\ isProcessing'
              /\ task'.pc = "delay" ) ]_vars
  /\ [][ (task.pc = "delay" /\ IsPlaceholder(task.gameState.activeChallenge)
            /\ Settled(lastCall', "delayElapsed"))
         => IF task.gameState.currentTurn >= task.gameState.maxTurns
              THEN gameState'.status = "finished" /\ requests' = requests
              ELSE /\ gameState'.currentTurn = gameState.currentTurn + 1
                   /\ gameState'.status = "playing"
                   /\ Len(requests') = Len(requests) + 1
                   /\ requests'[Len(requests')].api = "sendMessage"
                   /\ inflight' = {Len(requests')} ]_vars

\* the placeholder stood in for the second turn, its only option was
\* selected, and the request of the third turn is outstanding
C26_Witness ==
  /\ task.pc = "next"
  /\ IsPlaceholder(task.gameState.activeChallenge)
  /\ task.gameState.currentTurn = 2
  /\ gameState.currentTurn = 3
  /\ messages[Len(messages)].isCorrect
  /\ messages[Len(messages)].text = <<"Reload">>
  /\ inflight # {}

\* the user's entries marked correct
CorrectEntries(msgs) ==
  {i \in 1..Len(msgs) : msgs[i].role = "user" /\ msgs[i].step = "grammar"
                          /\ msgs[i].isCorrect}

\* C27: when status is finished the counter equals maxTurns and the history
\* holds maxTurns entries of the service and maxTurns entries of the user
\* marked correct, one after each entry of the service
C27_FinishedHistoryComplete ==
  gameState.status = "finished"
    => ( /\ gameState.currentTurn = gameState.maxTurns
         /\ Cardinality(ModelEntries(messages)) = gameState.maxTurns
         /\ Cardinality(CorrectEntries(messages)) = gameState.maxTurns
         /\ \A i \in ModelEntries(messages) :
              Cardinality({j \in CorrectEntries(messages) :
                             /\ j > i
                             /\ \A k \in ModelEntries(messages) : k <= i \/ k > j}) = 1
         /\ messages[Len(messages)].role = "user"
         /\ messages[Len(messages)].isCorrect )

\* the game has ended with ten challenges, ten correct answers and two wrong
\* ones in the history
C27_Witness ==
  /\ gameState.status = "finished"
  /\ Cardinality(ModelEntries(messages)) = TOTAL_TURNS
  /\ Cardinality(CorrectEntries(messages)) = TOTAL_TURNS
  /\ Cardinality(WrongEntries(messages)) >= 2
  /\ ~isProcessing

\* a challenge one of whose options is its correct answer
Completable(challenge) ==
  /\ Truthy(challenge)
  /\ "options" \in DOMAIN challenge
  /\ "correctAnswer" \in DOMAIN challenge
  /\ challenge.correctAnswer \in Range(challenge.options)

\* what a service call that did not succeed leaves behind: the initial load
\* failed, no challenge was installed, or the one installed cannot be answered
ServiceFailed ==
  \/ gameState.status = "error"
  \/ Stranded
  \/ Truthy(gameState.activeChallenge) /\ ~Completable(gameState.activeChallenge)

\* the user types a text that is not blank
TypeText == TypeEnglish /\ ~Blank(englishInput')

\* the user submits a text that is accepted
SubmitText == HandleEnglishSubmit /\ lastCall'.accepted

\* the user selects the correct answer
SelectCorrect ==
  /\ HandleOptionSelect
  /\ lastCall'.accepted
  /\ lastCall'.option = Get(gameState.activeChallenge, "correctAnswer")

\* the mount effect runs, session creation, the first turn request or the
\* bridging call settles, or the timer fires
Settles ==
  \/ StartQuest
  \/ InitChatSettles
  \/ StartSettles
  \/ BridgeSettles
  \/ DelayElapsed

\* The mount effect runs, promises settle and the timer fires; a next-turn
\* request does not stay outstanding for ever (chatSession.sendMessage
\* resolves or rejects); the user does not leave the input blank or the
\* correct option unselected for ever, and submits the text if it is there
\* to be submitted again and again.
LiveSpec ==
  /\ Spec
  /\ WF_vars(Settles \/ TypeText \/ SelectCorrect)
  /\ []<>(task.pc # "next")
  /\ SF_vars(SubmitText)

\* C28: every session in which no service call leaves the session without an
\* answerable challenge reaches status finished, with the counter at maxTurns
\* and maxTurns correct answers in the history
C28_SessionFinishes ==
  (task.pc = "mounted")
    ~> ( \/ ServiceFailed
         \/ /\ gameState.status = "finished"
            /\ gameState.currentTurn = gameState.maxTurns
            /\ Cardinality(CorrectEntries(messages)) = gameState.maxTurns )

\* the game has ended and every challenge in the history was answerable
C28_Witness ==
  /\ gameState.status = "finished"
  /\ Settled(lastCall, "delayElapsed")
  /\ \A i \in ModelEntries(messages) : Completable(messages[i].structuredContent)
  /\ Cardinality(CorrectEntries(messages)) = TOTAL_TURNS

\* C29: a turn request is sent only while the session exists, and the first
\* one in the step where session creation has completed; sendMessage called
\* without a session throws and sends nothing; and when session creation
\* fails status becomes error and no turn request is sent in that session
C29_RequestsNeedSession ==
  /\ [][ ( /\ Len(requests') > Len(requests)
           /\ IsTurnRequest(requests'[Len(requests')]) )
         => ( /\ chatSession' = "chat"
              /\ requests'[Len(requests')].message = StartMessage
                   => ( /\ requests = <<>>
                        /\ Settled(lastCall', "initChat")
                        /\ ~lastCall'.threw ) ) ]_vars
  /\ [][ (Settled(lastCall', "sendMessage") /\ chatSession = "null")
         => ( /\ lastCall'.threw
              /\ requests' = requests
              /\ inflight' = inflight ) ]_vars
  /\ [][ (Settled(lastCall', "initChat") /\ lastCall'.threw)
         => ( /\ gameState'.status = "error"
              /\ chatSession' = "null"
              /\ requests' = <<>>
              /\ inflight' = {} ) ]_vars
  /\ [](chatSession = "null" => requests = <<>>)

\* session creation has failed, and sendMessage called afterwards has thrown
\* without sending
C29_Witness ==
  /\ gameState.status = "error"
  /\ chatSession = "null"
  /\ Settled(lastCall, "sendMessage")
  /\ lastCall.threw
  /\ requests = <<>>

====
